---------------------------- MODULE Spec2Model ----------------------------
(***************************************************************************)
(* Model of util/reflectutils/jsonfield.go: the tag parser                 *)
(* (ParseStructFieldJsonInfo), the schema walker (fetchStructFieldInfos),  *)
(* the process-wide schema cache (cachefetchStructFieldInfos), the value   *)
(* walker (fetchStructFieldValueV2s) and the name resolver                 *)
(* (SStructFieldValueSetV2.getStructFieldIndex / GetValue).                *)
(*                                                                         *)
(* Strings are sequences of one-character strings, so that splitting,      *)
(* lower-casing and camel-case splitting are computed, not assumed.        *)
(* Indexes (SStructFieldValueV2.Index, the result of getStructFieldIndex)  *)
(* are 0-based as in the Go code; TLA+ sequences are 1-based, hence the    *)
(* "+ 1" wherever a Go index selects an element.                           *)
(***************************************************************************)
EXTENDS Integers, Sequences, FiniteSets, TLC

(***************************************************************************)
(* Strings                                                                 *)
(***************************************************************************)
UpperChars == <<"A","B","C","D","E","F","G","H","I","J","K","L","M",
                "N","O","P","Q","R","S","T","U","V","W","X","Y","Z">>
LowerChars == <<"a","b","c","d","e","f","g","h","i","j","k","l","m",
                "n","o","p","q","r","s","t","u","v","w","x","y","z">>

IsUpper(c) == \E i \in DOMAIN UpperChars : UpperChars[i] = c
IsLower(c) == \E i \in DOMAIN LowerChars : LowerChars[i] = c

ToLowerCh(c) ==
    IF IsUpper(c)
    THEN LowerChars[CHOOSE i \in DOMAIN UpperChars : UpperChars[i] = c]
    ELSE c

ToUpperCh(c) ==
    IF IsLower(c)
    THEN UpperChars[CHOOSE i \in DOMAIN LowerChars : LowerChars[i] = c]
    ELSE c

\* strings.ToLower
ToLower(s) == [i \in 1..Len(s) |-> ToLowerCh(s[i])]

RECURSIVE SplitFrom(_, _, _, _)
SplitFrom(s, sep, i, cur) ==
    IF i > Len(s) THEN <<cur>>
    ELSE IF s[i] = sep THEN <<cur>> \o SplitFrom(s, sep, i + 1, <<>>)
    ELSE SplitFrom(s, sep, i + 1, Append(cur, s[i]))

\* strings.Split(s, sep) for a one-character separator: always at least one
\* element, the empty string included.
Split(s, sep) == SplitFrom(s, sep, 1, <<>>)

RECURSIVE Join(_, _)
\* strings.Join
Join(toks, sep) ==
    IF Len(toks) = 0 THEN <<>>
    ELSE IF Len(toks) = 1 THEN toks[1]
    ELSE toks[1] \o sep \o Join(Tail(toks), sep)

RECURSIVE CamelSplitTokens(_, _, _, _)
\* utils.CamelSplitTokens: a token ends at a non-letter (dropped) and before
\* an upper-case letter that follows a lower-case one; tokens are lower-cased.
CamelSplitTokens(s, i, cur, toks) ==
    LET flush == IF Len(cur) > 0 THEN Append(toks, cur) ELSE toks
    IN  IF i > Len(s) THEN flush
        ELSE IF ~(IsUpper(s[i]) \/ IsLower(s[i]))
             THEN CamelSplitTokens(s, i + 1, <<>>, flush)
        ELSE IF IsUpper(s[i]) /\ i > 1 /\ IsLower(s[i - 1])
             THEN CamelSplitTokens(s, i + 1, <<ToLowerCh(s[i])>>, flush)
        ELSE CamelSplitTokens(s, i + 1, Append(cur, ToLowerCh(s[i])), toks)

\* utils.CamelSplit(str, sep)
CamelSplit(s, sep) == Join(CamelSplitTokens(s, 1, <<>>, <<>>), sep)

\* utils.Capitalize
Capitalize(s) == IF Len(s) = 0 THEN s ELSE <<ToUpperCh(s[1])>> \o Tail(s)

\* gotypes.IsFieldExportable
IsFieldExportable(name) == Len(name) > 0 /\ IsUpper(name[1])

(***************************************************************************)
(* Tag parser                                                              *)
(***************************************************************************)
s_json       == <<"j","s","o","n">>
s_name       == <<"n","a","m","e">>
s_dash       == <<"-">>
s_omitempty  == <<"o","m","i","t","e","m","p","t","y">>
s_allowempty == <<"a","l","l","o","w","e","m","p","t","y">>
s_omitzero   == <<"o","m","i","t","z","e","r","o">>
s_allowzero  == <<"a","l","l","o","w","z","e","r","o">>
s_omitfalse  == <<"o","m","i","t","f","a","l","s","e">>
s_allowfalse == <<"a","l","l","o","w","f","a","l","s","e">>
s_string     == <<"s","t","r","i","n","g">>

\* utils.TagMap gives a map key -> value; here a set of <<key, value>> pairs
\* with at most one pair per key.
HasTag(tags, key) == \E p \in tags : p[1] = key
TagVal(tags, key) == (CHOOSE p \in tags : p[1] = key)[2]

RECURSIVE ApplyOptions(_, _, _)
\* the loop over keys[1:] (Go) = keys[2..] here
ApplyOptions(info, keys, i) ==
    IF i > Len(keys) THEN info
    ELSE LET k == ToLower(keys[i])
             next ==
                CASE k = s_omitempty  -> [info EXCEPT !.OmitEmpty = TRUE]
                  [] k = s_allowempty -> [info EXCEPT !.OmitEmpty = FALSE]
                  [] k = s_omitzero   -> [info EXCEPT !.OmitZero = TRUE]
                  [] k = s_allowzero  -> [info EXCEPT !.OmitZero = FALSE]
                  [] k = s_omitfalse  -> [info EXCEPT !.OmitFalse = TRUE]
                  [] k = s_allowfalse -> [info EXCEPT !.OmitFalse = FALSE]
                  [] k = s_string     -> [info EXCEPT !.ForceString = TRUE]
                  [] OTHER            -> info
         IN  ApplyOptions(next, keys, i + 1)

\* a plausible slip: "-" always means ignore, whatever follows it
FirstKey_DashAlwaysIgnores(info, keys) ==
    IF keys[1] = s_dash
    THEN [info EXCEPT !.Ignore = TRUE]
    ELSE [info EXCEPT !.Name = keys[1]]

\* the first token of the json tag: Name and Ignore
FirstKey(info, keys) ==
    IF keys[1] = s_dash
    THEN IF Len(keys) > 1
         THEN [info EXCEPT !.Name = keys[1]]
         ELSE [info EXCEPT !.Ignore = TRUE]
    ELSE [info EXCEPT !.Name = keys[1]]

ParseStructFieldJsonInfo(sf) ==
    LET info0 == [Ignore |-> FALSE, OmitEmpty |-> TRUE, OmitFalse |-> FALSE,
                  OmitZero |-> FALSE, Name |-> <<>>, FieldName |-> sf.Name,
                  ForceString |-> FALSE, Tags |-> sf.Tag]
        info1 == IF HasTag(sf.Tag, s_json)
                 THEN LET keys == Split(TagVal(sf.Tag, s_json), ",")
                      IN  ApplyOptions(FirstKey(info0, keys), keys, 2)
                 ELSE info0
    IN  IF HasTag(sf.Tag, s_name)
        THEN [info1 EXCEPT !.Name = TagVal(sf.Tag, s_name)]
        ELSE info1

\* SStructFieldInfo.MarshalName: the value returned (the memoization writes
\* to the caller's copy of the info, never to the cached slice, because the
\* resolver ranges over the infos by value)
MarshalName(info) ==
    IF Len(info.Name) > 0 THEN info.Name ELSE CamelSplit(info.FieldName, <<"_">>)

(***************************************************************************)
(* Record types (reflect.Type) and instances (reflect.Value)               *)
(*                                                                         *)
(* A field declaration (reflect.StructField) is                            *)
(*   [Name, Anonymous, Kind, Elem, Tag]                                    *)
(* with Kind one of "int" (any scalar), "struct" (Elem by value), "ptr"    *)
(* (pointer to struct Elem) and "iface" (an interface type).               *)
(* A value is [k, t, e, id]: its kind, its struct type, its content (the   *)
(* field values of a struct; the pointee of a non-nil pointer; the dynamic *)
(* value of a non-nil interface; empty otherwise) and the identity of its  *)
(* storage, which is the name of the field that declares it.               *)
(***************************************************************************)
n_Ab   == <<"A","b">>
n_E    == <<"E">>
n_c    == <<"c">>
n_S    == <<"S">>
n_Time == <<"T","i","m","e">>
n_Z    == <<"Z">>
n_U    == <<"U">>
n_V    == <<"V">>
n_G    == <<"G">>
n_ID   == <<"I","D">>
n_W    == <<"W">>
n_I    == <<"I">>
n_P    == <<"P">>
n_Q    == <<"Q">>
n_wall == <<"w","a","l","l">>
n_ext  == <<"e","x","t">>
n_loc  == <<"l","o","c">>
n_root == <<"*">>

NoTag == {}
JsonTag(v) == {<<s_json, v>>}
JsonNameTag(v, n) == {<<s_json, v>>, <<s_name, n>>}

t_dash       == <<"-">>
t_dashString == <<"-",",","s","t","r","i","n","g">>
t_Ab         == <<"A","b">>
t_p          == <<"p",",","a","l","l","o","w","e","m","p","t","y",",",
                  "O","m","i","t","Z","e","r","o">>
t_q          == <<",","o","m","i","t","f","a","l","s","e",",",
                  "a","l","l","o","w","f","a","l","s","e">>
t_w          == <<"w">>

Plain(name, tag) ==
    [Name |-> name, Anonymous |-> FALSE, Kind |-> "int", Elem |-> "", Tag |-> tag]
Embedded(name, kind, elem) ==
    [Name |-> name, Anonymous |-> TRUE, Kind |-> kind, Elem |-> elem, Tag |-> NoTag]

\* gotypes.TimeType
TimeType == "Time"

\* The record types of the model:
\*   type TP struct { Ab int; *E; c int; S; time.Time; Z int `json:"Ab"` }
\*   type E  struct { U int `json:"-"`; V int `json:"-,string"`; *G }
\*   type G  struct { ID int }
\*   type S  struct { W int `json:"-,string" name:"w"` }
\*   type TI struct { Ab int; I; *G; Z int `json:"Ab"` }  (I an interface)
\*   type D  struct { P int `json:"p,allowempty,OmitZero"`;
\*                    Q int `json:",omitfalse,allowfalse"` }
FieldsOf(t) ==
    CASE t = "TP" -> << Plain(n_Ab, NoTag),
                        Embedded(n_E, "ptr", "E"),
                        Plain(n_c, NoTag),
                        Embedded(n_S, "struct", "S"),
                        Embedded(n_Time, "struct", TimeType),
                        Plain(n_Z, JsonTag(t_Ab)) >>
      [] t = "E"  -> << Plain(n_U, JsonTag(t_dash)),
                        Plain(n_V, JsonTag(t_dashString)),
                        Embedded(n_G, "ptr", "G") >>
      [] t = "G"  -> << Plain(n_ID, NoTag) >>
      [] t = "S"  -> << Plain(n_W, JsonNameTag(t_dashString, t_w)) >>
      [] t = "TI" -> << Plain(n_Ab, NoTag),
                        Embedded(n_I, "iface", ""),
                        Embedded(n_G, "ptr", "G"),
                        Plain(n_Z, JsonTag(t_Ab)) >>
      [] t = "D"  -> << Plain(n_P, JsonTag(t_p)),
                        Plain(n_Q, JsonTag(t_q)) >>
      [] t = TimeType -> << Plain(n_wall, NoTag), Plain(n_ext, NoTag),
                            Plain(n_loc, NoTag) >>

TypeNames == {"TP", "E", "G", "S", "TI", "D", TimeType}

\* reflect.Type.Field, as a table over the types
FieldTable == [t \in TypeNames |-> FieldsOf(t)]

Fields(t) == FieldTable[t]

NumField(t) == Len(Fields(t))

\* the declared type of the field is gotypes.TimeType
IsTimeType(sf) == sf.Kind = "struct" /\ sf.Elem = TimeType

\* the zero reflect.Value
Invalid == [k |-> "invalid", t |-> "", e |-> <<>>, id |-> <<>>]

RECURSIVE NewStruct(_, _)
\* the zero value of struct type t, stored in the field called id
NewStruct(t, id) ==
    [k |-> "struct", t |-> t, id |-> id,
     e |-> [i \in 1..NumField(t) |->
              LET sf == Fields(t)[i]
              IN  IF sf.Kind = "struct" THEN NewStruct(sf.Elem, sf.Name)
                  ELSE [k |-> sf.Kind, t |-> sf.Elem, e |-> <<>>, id |-> sf.Name]]]

\* reflect.Value.IsNil, for pointers and interfaces
IsNil(fv) == fv.e = <<>>

\* reflect.Value.Elem
Elem(fv) == IF fv.e = <<>> THEN Invalid ELSE fv.e[1]

\* fv.Set(reflect.New(fv.Type().Elem())); the instances are addressable
\* (a caller passes reflect.ValueOf(ptr).Elem()), so Set does not panic
Alloc(fv) == [fv EXCEPT !.e = <<NewStruct(fv.t, fv.id)>>]

(***************************************************************************)
(* Schema walker                                                           *)
(***************************************************************************)
\* The struct the walkers recursed into goes back where it came from: into
\* the pointee of an embedded pointer, or into the embedded struct itself.
\* (The struct held by an interface is a copy that cannot be set; the
\* struct types held by interfaces here have no pointer to allocate.)
WriteBack(dv, i, fv, sub) ==
    CASE fv.k = "ptr"    -> [dv EXCEPT !.e[i] = [fv EXCEPT !.e = <<sub>>]]
      [] fv.k = "struct" -> [dv EXCEPT !.e[i] = sub]
      [] OTHER           -> [dv EXCEPT !.e[i] = fv]

\* an embedded field is expanded when what it leads to is a struct and its
\* declared type is not time.Time
Expands(fv, sf) == fv.k = "struct" /\ ~IsTimeType(sf)

RECURSIVE fetchStructFieldInfos(_)
RECURSIVE InfosLoop(_, _, _)
\* the loop body of fetchStructFieldInfos for field i (1-based); the result
\* is [ret, dv]: the infos, and dataValue as the walk leaves it
InfosLoop(dv, i, ret) ==
    IF i > NumField(dv.t) THEN [ret |-> ret, dv |-> dv]
    ELSE
      LET sf == Fields(dv.t)[i]
          fv == dv.e[i]
      IN  IF ~IsFieldExportable(sf.Name) THEN InfosLoop(dv, i + 1, ret)
          ELSE IF sf.Anonymous
          THEN LET fvA == IF fv.k = "ptr" /\ IsNil(fv) THEN Alloc(fv) ELSE fv
                   fv1 == IF fvA.k = "ptr" THEN Elem(fvA) ELSE fvA
                   fv2 == IF fv1.k = "iface" THEN Elem(fv1) ELSE fv1
               IN  IF Expands(fv2, sf)
                   THEN LET sub == fetchStructFieldInfos(fv2)
                        IN  InfosLoop(WriteBack(dv, i, fvA, sub.dv), i + 1,
                                      ret \o sub.ret)
                   ELSE InfosLoop([dv EXCEPT !.e[i] = fvA], i + 1,
                                  Append(ret, ParseStructFieldJsonInfo(sf)))
          ELSE InfosLoop(dv, i + 1, Append(ret, ParseStructFieldJsonInfo(sf)))

fetchStructFieldInfos(dataValue) == InfosLoop(dataValue, 1, <<>>)

(***************************************************************************)
(* Value walker                                                            *)
(***************************************************************************)
\* a plausible slip: the write flag ignored, nothing is ever allocated
Allocates_Never(fv, allocatePtr) == FALSE

\* a nil embedded pointer is allocated only for write
Allocates(fv, allocatePtr) == fv.k = "ptr" /\ allocatePtr

\* the index after a nil embedded field that is skipped
SkipIndex(index) == index + 1

RECURSIVE fetchStructFieldValueV2s(_, _, _)
RECURSIVE ValuesLoop(_, _, _, _, _)
\* the loop body of fetchStructFieldValueV2s for field i (1-based); the
\* result is [ret, index, dv]
ValuesLoop(dv, allocatePtr, index, i, ret) ==
    IF i > NumField(dv.t) THEN [ret |-> ret, index |-> index, dv |-> dv]
    ELSE
      LET sf == Fields(dv.t)[i]
          fv == dv.e[i]
          indirect == sf.Anonymous /\ fv.k \in {"ptr", "iface"}
      IN  IF ~IsFieldExportable(sf.Name)
          THEN ValuesLoop(dv, allocatePtr, index, i + 1, ret)
          ELSE IF indirect /\ IsNil(fv) /\ ~Allocates(fv, allocatePtr)
          THEN ValuesLoop(dv, allocatePtr, SkipIndex(index), i + 1, ret)
          ELSE
            LET fvA == IF indirect /\ IsNil(fv) THEN Alloc(fv) ELSE fv
                fv1 == IF indirect THEN Elem(fvA) ELSE fvA
            IN  IF sf.Anonymous /\ Expands(fv1, sf)
                THEN LET sub == fetchStructFieldValueV2s(fv1, allocatePtr, index)
                     IN  ValuesLoop(WriteBack(dv, i, fvA, sub.dv), allocatePtr,
                                    sub.index, i + 1, ret \o sub.ret)
                ELSE ValuesLoop([dv EXCEPT !.e[i] = fvA], allocatePtr,
                                index + 1, i + 1,
                                Append(ret, [Value |-> fv1, Index |-> index]))

fetchStructFieldValueV2s(dataValue, allocatePtr, index) ==
    ValuesLoop(dataValue, allocatePtr, index, 1, <<>>)

\* the flag FetchStructFieldValueSetV2 (FALSE) and
\* FetchStructFieldValueSetForWriteV2 (TRUE) hand to the value walker
AllocatePtrOf(write) == write

(***************************************************************************)
(* Name resolver                                                           *)
(***************************************************************************)
\* a plausible slip: the last test (capitalized key) left out
MatchRule_NoCapitalize(jsonInfo, name) ==
    IF MarshalName(jsonInfo) = name THEN 1
    ELSE IF CamelSplit(jsonInfo.FieldName, <<"_">>) = CamelSplit(name, <<"_">>) THEN 2
    ELSE IF jsonInfo.FieldName = name THEN 3
    ELSE 0

\* the four tests of the loop body, in the order of the code
MatchRule(jsonInfo, name) ==
    IF MarshalName(jsonInfo) = name THEN 1
    ELSE IF CamelSplit(jsonInfo.FieldName, <<"_">>) = CamelSplit(name, <<"_">>) THEN 2
    ELSE IF jsonInfo.FieldName = name THEN 3
    ELSE IF jsonInfo.FieldName = Capitalize(name) THEN 4
    ELSE 0

RECURSIVE SchemaScan(_, _, _)
\* for i, jsonInfo := range set.Infos { ... index = i; break }
SchemaScan(Infos, name, i) ==
    IF i >= Len(Infos) THEN -1
    ELSE IF MatchRule(Infos[i + 1], name) # 0 THEN i
    ELSE SchemaScan(Infos, name, i + 1)

\* the first half of getStructFieldIndex: the position in set.Infos
ResolveIndex(Infos, name) == SchemaScan(Infos, name, 0)

RECURSIVE ReverseScan(_, _, _)
\* for i := index; i >= 0; i-- { if set.Values[i].Index == index { return i } }
\* and, after the loop, return index
ReverseScan(Values, index, i) ==
    IF i < 0 THEN index
    ELSE IF Values[i + 1].Index = index THEN i
    ELSE ReverseScan(Values, index, i - 1)

getStructFieldIndex(set, name) ==
    LET index == ResolveIndex(set.Infos, name)
    IN  IF index < 0 THEN index
        ELSE LET clamped == IF index >= Len(set.Values)
                            THEN Len(set.Values) - 1 ELSE index
             IN  ReverseScan(set.Values, clamped, clamped)

\* SStructFieldValueSetV2.GetValue
GetValue(set, name) ==
    LET idx == getStructFieldIndex(set, name)
    IN  IF idx < 0 THEN [found |-> FALSE, value |-> Invalid]
        ELSE [found |-> TRUE, value |-> set.Values[idx + 1].Value]

(***************************************************************************)
(* Schema cache (sync.Map keyed by reflect.Type)                           *)
(***************************************************************************)
\* sync.Map.Load
Load(m, key) ==
    IF key \in DOMAIN m THEN [value |-> m[key], ok |-> TRUE]
    ELSE [value |-> <<>>, ok |-> FALSE]

\* a plausible slip: Store where LoadOrStore is needed; the last writer wins
LoadOrStore_Overwrite(m, key, value) ==
    [m |-> [k \in DOMAIN m \cup {key} |-> IF k = key THEN value ELSE m[k]],
     actual |-> value]

\* sync.Map.LoadOrStore: the map afterwards, and the value it holds for key
LoadOrStore(m, key, value) ==
    IF key \in DOMAIN m THEN [m |-> m, actual |-> m[key]]
    ELSE [m |-> [k \in DOMAIN m \cup {key} |-> IF k = key THEN value ELSE m[k]],
          actual |-> value]

(***************************************************************************)
(* The program: callers of FetchStructFieldValueSetV2 and                  *)
(* FetchStructFieldValueSetForWriteV2, each on an instance of its own,     *)
(* sharing structFieldInfoCache; then a lookup by name on the result.      *)
(***************************************************************************)
\* the most calls made in one run
MaxCalls == 3

Callers == {"c1", "c2"}

\* the instances of TP: every presence pattern of its embedded pointers
InstancesTP ==
    LET base   == NewStruct("TP", n_root)
        withE  == [base EXCEPT !.e[2] = Alloc(base.e[2])]
        withEG == [withE EXCEPT !.e[2].e[1].e[3] = Alloc(withE.e[2].e[1].e[3])]
    IN  {base, withE, withEG}

\* the instances of TI: the interface nil, holding a D, or holding a *D;
\* the embedded pointer nil or not
InstancesTI ==
    LET base == NewStruct("TI", n_root)
        d    == NewStruct("D", n_I)
        ifaces == {base,
                   [base EXCEPT !.e[2].e = <<d>>],
                   [base EXCEPT !.e[2].e =
                        <<[k |-> "ptr", t |-> "D", e |-> <<d>>, id |-> n_I]>>]}
    IN  ifaces \cup {[dv EXCEPT !.e[3] = Alloc(dv.e[3])] : dv \in ifaces}

\* the instances a caller may pass
Instances == InstancesTP \cup InstancesTI

k_Ab   == <<"A","b">>
k_u    == <<"u">>
k_dash == <<"-">>
k_iD   == <<"i","D">>
k_w    == <<"w">>
k_p    == <<"p">>
k_z    == <<"z">>
k_zz   == <<"z","z">>

\* the names looked up
Keys == {k_Ab, k_u, k_dash, k_iD, k_w, k_p, k_z, k_zz}

NoLookup == [key |-> <<>>, sidx |-> -1, found |-> FALSE, value |-> Invalid]

VARIABLES
    cache,     \* structFieldInfoCache: record type -> []SStructFieldInfo
    pc,        \* where each caller is
    arg,       \* the instance as the caller passed it
    inst,      \* the same instance as it is now
    write,     \* TRUE for FetchStructFieldValueSetForWriteV2
    computed,  \* the schema the caller computed after a cache miss
    infos,     \* Infos of the caller's result
    values,    \* Values of the caller's result
    got,       \* the caller's lookup on its result
    calls      \* calls made so far

vars == <<cache, pc, arg, inst, write, computed, infos, values, got, calls>>

Init ==
    /\ cache = [k \in {} |-> <<>>]
    /\ pc = [c \in Callers |-> "idle"]
    /\ arg = [c \in Callers |-> Invalid]
    /\ inst = [c \in Callers |-> Invalid]
    /\ write = [c \in Callers |-> FALSE]
    /\ computed = [c \in Callers |-> <<>>]
    /\ infos = [c \in Callers |-> <<>>]
    /\ values = [c \in Callers |-> <<>>]
    /\ got = [c \in Callers |-> NoLookup]
    /\ calls = 0

\* a caller enters FetchStructFieldValueSetV2 (w = FALSE) or
\* FetchStructFieldValueSetForWriteV2 (w = TRUE) with dataValue = dv
Call(c, dv, w) ==
    /\ pc[c] = "idle"
    /\ calls < MaxCalls
    /\ calls' = calls + 1
    /\ arg' = [arg EXCEPT ![c] = dv]
    /\ inst' = [inst EXCEPT ![c] = dv]
    /\ write' = [write EXCEPT ![c] = w]
    /\ pc' = [pc EXCEPT ![c] = "load"]
    /\ UNCHANGED <<cache, computed, infos, values, got>>

\* cachefetchStructFieldInfos: structFieldInfoCache.Load(dataType)
CacheLoad(c) ==
    /\ pc[c] = "load"
    /\ LET r == Load(cache, inst[c].t)
       IN  IF r.ok
           THEN /\ infos' = [infos EXCEPT ![c] = r.value]
                /\ pc' = [pc EXCEPT ![c] = "walk"]
           ELSE /\ infos' = infos
                /\ pc' = [pc EXCEPT ![c] = "compute"]
    /\ UNCHANGED <<cache, arg, inst, write, computed, values, got, calls>>

\* cachefetchStructFieldInfos: the argument fetchStructFieldInfos(dataValue)
\* of LoadOrStore, evaluated after the miss
Compute(c) ==
    /\ pc[c] = "compute"
    /\ LET r == fetchStructFieldInfos(inst[c])
       IN  /\ computed' = [computed EXCEPT ![c] = r.ret]
           /\ inst' = [inst EXCEPT ![c] = r.dv]
    /\ pc' = [pc EXCEPT ![c] = "store"]
    /\ UNCHANGED <<cache, arg, write, infos, values, got, calls>>

\* cachefetchStructFieldInfos: structFieldInfoCache.LoadOrStore
CacheLoadOrStore(c) ==
    /\ pc[c] = "store"
    /\ LET r == LoadOrStore(cache, inst[c].t, computed[c])
       IN  /\ cache' = r.m
           /\ infos' = [infos EXCEPT ![c] = r.actual]
    /\ pc' = [pc EXCEPT ![c] = "walk"]
    /\ UNCHANGED <<arg, inst, write, computed, values, got, calls>>

\* fetchStructFieldValueV2s(dataValue, allocatePtr, 0) and the return of
\* SStructFieldValueSetV2{infos, values}
Walk(c) ==
    /\ pc[c] = "walk"
    /\ LET r == fetchStructFieldValueV2s(inst[c], AllocatePtrOf(write[c]), 0)
       IN  /\ values' = [values EXCEPT ![c] = r.ret]
           /\ inst' = [inst EXCEPT ![c] = r.dv]
    /\ pc' = [pc EXCEPT ![c] = "done"]
    /\ UNCHANGED <<cache, arg, write, computed, infos, got, calls>>

\* the result the caller holds
ResultOf(c) == [Infos |-> infos[c], Values |-> values[c]]

\* set.GetValue(name) on the caller's result; sidx records the position in
\* set.Infos the name resolved to
Lookup(c, name) ==
    /\ pc[c] = "done"
    /\ LET r == GetValue(ResultOf(c), name)
       IN  got' = [got EXCEPT ![c] =
                     [key |-> name, sidx |-> ResolveIndex(infos[c], name),
                      found |-> r.found, value |-> r.value]]
    /\ pc' = [pc EXCEPT ![c] = "looked"]
    /\ UNCHANGED <<cache, arg, inst, write, computed, infos, values, calls>>

\* the caller drops its result and its instance
Return(c) ==
    /\ pc[c] \in {"done", "looked"}
    /\ pc' = [pc EXCEPT ![c] = "idle"]
    /\ arg' = [arg EXCEPT ![c] = Invalid]
    /\ inst' = [inst EXCEPT ![c] = Invalid]
    /\ write' = [write EXCEPT ![c] = FALSE]
    /\ computed' = [computed EXCEPT ![c] = <<>>]
    /\ infos' = [infos EXCEPT ![c] = <<>>]
    /\ values' = [values EXCEPT ![c] = <<>>]
    /\ got' = [got EXCEPT ![c] = NoLookup]
    /\ UNCHANGED <<cache, calls>>

\* one caller, call after call: what a call returns depends on the cache
\* and on the instance alone
SeqNext ==
    \/ \E dv \in Instances, w \in BOOLEAN : Call("c1", dv, w)
    \/ CacheLoad("c1")
    \/ Compute("c1")
    \/ CacheLoadOrStore("c1")
    \/ Walk("c1")
    \/ \E name \in Keys : Lookup("c1", name)
    \/ Return("c1")

Spec == Init /\ [][SeqNext]_vars

\* callers side by side, interleaved at the operations on the cache
RaceNext ==
    \/ \E c \in Callers, dv \in Instances, w \in BOOLEAN : Call(c, dv, w)
    \/ \E c \in Callers : CacheLoad(c)
    \/ \E c \in Callers : Compute(c)
    \/ \E c \in Callers : CacheLoadOrStore(c)
    \/ \E c \in Callers : Walk(c)
    \/ \E c \in Callers : Return(c)

SpecRace == Init /\ [][RaceNext]_vars

(***************************************************************************)
(* Vocabulary of the properties                                            *)
(***************************************************************************)
\* the caller holds a result
Returned(c) == pc[c] \in {"done", "looked"}

RECURSIVE HasNil(_, _)
\* the struct dv has, where the walkers would come by it, a nil embedded
\* field of the kind given ("ptr" or "iface")
HasNil(dv, kind) ==
    \E i \in 1..NumField(dv.t) :
       LET sf == Fields(dv.t)[i]
           fv == dv.e[i]
       IN  /\ IsFieldExportable(sf.Name)
           /\ sf.Anonymous
           /\ \/ fv.k = kind /\ IsNil(fv)
              \/ /\ fv.k \in {"ptr", "iface"}
                 /\ ~IsNil(fv)
                 /\ Elem(fv).k = "struct"
                 /\ HasNil(Elem(fv), kind)
              \/ fv.k = "struct" /\ ~IsTimeType(sf) /\ HasNil(fv, kind)

\* an optional composed field of dv is absent
HasAbsent(dv) == HasNil(dv, "ptr") \/ HasNil(dv, "iface")

RECURSIVE TypeHasIface(_)
\* the expansion of record type t holds an embedded interface field
TypeHasIface(t) ==
    \E i \in 1..NumField(t) :
       LET sf == Fields(t)[i]
       IN  /\ IsFieldExportable(sf.Name)
           /\ sf.Anonymous
           /\ \/ sf.Kind = "iface"
              \/ sf.Kind \in {"ptr", "struct"} /\ ~IsTimeType(sf) /\ TypeHasIface(sf.Elem)

RECURSIVE LeafDecls(_)
\* the declarations of the fields of record type t that are not expanded,
\* embedded structs and pointers to structs followed
LeafDecls(t) ==
    UNION { LET sf == Fields(t)[i]
            IN  IF ~IsFieldExportable(sf.Name) THEN {}
                ELSE IF sf.Anonymous /\ sf.Kind \in {"ptr", "struct"} /\ ~IsTimeType(sf)
                     THEN LeafDecls(sf.Elem)
                ELSE IF sf.Kind = "iface" THEN {}
                ELSE {sf}
          : i \in 1..NumField(t) }

RECURSIVE AbsentNames(_)
\* the source names of the fields nested inside the nil embedded pointers
\* of dv
AbsentNames(dv) ==
    UNION { LET sf == Fields(dv.t)[i]
                fv == dv.e[i]
            IN  IF ~(IsFieldExportable(sf.Name) /\ sf.Anonymous) THEN {}
                ELSE IF fv.k = "ptr" /\ IsNil(fv)
                     THEN {d.Name : d \in LeafDecls(fv.t)}
                ELSE IF fv.k = "ptr" THEN AbsentNames(Elem(fv))
                ELSE IF fv.k = "struct" /\ ~IsTimeType(sf) THEN AbsentNames(fv)
                ELSE {}
          : i \in 1..NumField(dv.t) }

\* the Index sequence of a Values
IndexSeq(vs) == [j \in 1..Len(vs) |-> vs[j].Index]

\* the four naming rules of the resolver, each on its own
RuleHolds(r, info, name) ==
    CASE r = 1 -> MarshalName(info) = name
      [] r = 2 -> CamelSplit(info.FieldName, <<"_">>) = CamelSplit(name, <<"_">>)
      [] r = 3 -> info.FieldName = name
      [] r = 4 -> info.FieldName = Capitalize(name)

\* the 0-based positions of Infos that match name by rule r
MatchesBy(Infos, name, r) ==
    {i \in 0..(Len(Infos) - 1) : RuleHolds(r, Infos[i + 1], name)}

\* the 0-based positions of Infos that match name by some rule
MatchesAny(Infos, name) == UNION {MatchesBy(Infos, name, r) : r \in 1..4}

Min(S) == CHOOSE x \in S : \A y \in S : x <= y

\* the choice by rule priority over the whole schema: the first field that
\* matches by the earliest rule any field matches by
PriorityIndex(Infos, name) ==
    IF MatchesAny(Infos, name) = {} THEN -1
    ELSE LET r == Min({q \in 1..4 : MatchesBy(Infos, name, q) # {}})
         IN  Min(MatchesBy(Infos, name, r))

(***************************************************************************)
(* Properties                                                              *)
(***************************************************************************)

\* C1: on a read-mode result for an instance with a nil embedded pointer, a
\* name that resolves in Infos to a field nested inside that pointer is
\* reported not found by GetValue.
C1_AbsentFieldNotFound ==
    \A c \in Callers :
       (/\ pc[c] = "looked"
        /\ ~write[c]
        /\ got[c].sidx >= 0
        /\ infos[c][got[c].sidx + 1].FieldName \in AbsentNames(inst[c]))
       => ~got[c].found

\* C2: whenever GetValue reports found, the value returned is the Values
\* entry whose Index is the position the name resolved to, which is the
\* storage of the field whose info matched the name.
C2_FoundIsResolvedField ==
    \A c \in Callers :
       (pc[c] = "looked" /\ got[c].found)
       => /\ got[c].sidx >= 0
          /\ got[c].value.id = infos[c][got[c].sidx + 1].FieldName
          /\ \E j \in 1..Len(values[c]) :
                /\ values[c][j].Index = got[c].sidx
                /\ values[c][j].Value = got[c].value

\* C3: every read-mode call on an instance that has an absent optional
\* composed field when the call is made returns fewer Values than Infos,
\* whatever the cache holds.
C3_ReadAbsentFewerValues ==
    \A c \in Callers :
       (Returned(c) /\ ~write[c] /\ HasAbsent(arg[c]))
       => Len(values[c]) < Len(infos[c])

\* C4: every Values entry carries its true schema index: a position of
\* Infos whose info is that of the field the value is stored in; and the
\* indexes increase strictly along Values.
C4_TrueSchemaIndex ==
    \A c \in Callers :
       Returned(c)
       => \A j \in 1..Len(values[c]) :
             LET v == values[c][j]
             IN  /\ v.Index >= 0
                 /\ v.Index < Len(infos[c])
                 /\ infos[c][v.Index + 1].FieldName = v.Value.id
                 /\ (j > 1 => values[c][j - 1].Index < v.Index)

\* C5 as claimed: a write-mode call on an instance with an absent optional
\* composed field (nil embedded pointer or nil embedded interface)
\* materializes it, and returns as many Values as Infos.
C5_WriteMaterializesAll ==
    \A c \in Callers :
       (Returned(c) /\ write[c] /\ HasAbsent(arg[c]))
       => /\ ~HasAbsent(inst[c])
          /\ Len(values[c]) = Len(infos[c])

\* C5 amended: a write-mode call on an instance with a nil embedded pointer
\* materializes every nil embedded pointer; a nil embedded interface stays
\* nil; and for a record type with no embedded interface in its expansion
\* the call returns as many Values as Infos.
C5_WriteMaterializesPointers ==
    \A c \in Callers :
       (Returned(c) /\ write[c])
       => /\ ~HasNil(inst[c], "ptr")
          /\ (HasNil(arg[c], "iface") => HasNil(inst[c], "iface"))
          /\ (~TypeHasIface(arg[c].t) => Len(values[c]) = Len(infos[c]))

\* C5 witness: a write-mode call that found the schema in the cache was
\* given a TP with a nil embedded pointer and returned it materialized,
\* with as many Values as Infos.
C5_Witness ==
    \E c \in Callers :
       /\ pc[c] = "done"
       /\ write[c]
       /\ computed[c] = <<>>
       /\ arg[c].t = "TP"
       /\ HasNil(arg[c], "ptr")
       /\ ~HasNil(inst[c], "ptr")
       /\ Len(values[c]) = Len(infos[c])

\* C6: for an instance with every optional composed field present, read
\* mode and write mode both return the Index sequence 0, 1, ..., n-1, n the
\* length of Infos.
C6_AllPresentFullIndex ==
    \A c \in Callers :
       (Returned(c) /\ ~HasAbsent(arg[c]))
       => IndexSeq(values[c]) = [j \in 1..Len(infos[c]) |-> j - 1]

\* C7: under any interleaving of the callers, a schema stored in the cache
\* for a type is never replaced, and every caller past
\* cachefetchStructFieldInfos holds exactly the schema the cache stores for
\* its type, the callers that lost the race to store included.
C7_CacheConverges ==
    [][ /\ \A t \in DOMAIN cache : t \in DOMAIN cache' /\ cache'[t] = cache[t]
        /\ \A c \in Callers :
              pc'[c] \in {"walk", "done"}
              => /\ inst'[c].t \in DOMAIN cache'
                 /\ infos'[c] = cache'[inst'[c].t] ]_vars

\* C7 witness: a caller computed a schema, lost the race to store it, and
\* holds the schema the other caller stored, which differs from its own.
C7_Witness ==
    \E c \in Callers :
       /\ pc[c] \in {"walk", "done"}
       /\ computed[c] # <<>>
       /\ infos[c] # computed[c]
       /\ infos[c] = cache[inst[c].t]

\* C8: the schema fetchStructFieldInfos computes depends on the record type
\* alone: two callers that computed a schema for the same type computed
\* equal schemas.
C8_SchemaIndependentOfInstance ==
    \A c1, c2 \in Callers :
       (/\ computed[c1] # <<>>
        /\ computed[c2] # <<>>
        /\ inst[c1].t = inst[c2].t)
       => computed[c1] = computed[c2]

\* C9 as claimed: the position a name resolves to is chosen by rule
\* priority over the whole of Infos, whatever the declaration order; a name
\* that matches nothing is not found.
C9_PriorityOverWholeSchema ==
    \A c \in Callers :
       pc[c] = "looked"
       => got[c].sidx = PriorityIndex(infos[c], got[c].key)

\* C9 amended: the position a name resolves to is that of the first field
\* in declaration order that matches by any of the four rules; a name that
\* matches no field by any rule is not found.
C9_FirstFieldMatchingAnyRule ==
    \A c \in Callers :
       pc[c] = "looked"
       => LET m == MatchesAny(infos[c], got[c].key)
          IN  IF m = {}
              THEN got[c].sidx = -1 /\ ~got[c].found
              ELSE got[c].sidx = Min(m)

\* C9 witness: a name resolved to an earlier field that matches by a later
\* rule only, although a later field matches by the first rule.
C9_Witness ==
    \E c \in Callers :
       /\ pc[c] = "looked"
       /\ got[c].sidx >= 0
       /\ ~RuleHolds(1, infos[c][got[c].sidx + 1], got[c].key)
       /\ MatchesBy(infos[c], got[c].key, 1) # {}

\* the json tag of a declaration, split at the commas
JsonKeys(sf) == Split(TagVal(sf.Tag, s_json), ",")

\* the declarations of t whose json tag starts with the token "-"
DashDecls(t) ==
    {sf \in LeafDecls(t) : HasTag(sf.Tag, s_json) /\ JsonKeys(sf)[1] = s_dash}

\* C10 as claimed: a field tagged exactly "-" has no entry in the schema.
C10_DashFieldExcluded ==
    \A c \in Callers :
       Returned(c)
       => \A sf \in DashDecls(arg[c].t) :
             Len(JsonKeys(sf)) = 1
             => \A i \in 1..Len(infos[c]) : infos[c][i].FieldName # sf.Name

\* C10 amended: a field tagged exactly "-" keeps its entry in the schema,
\* marked ignored; a field tagged "-,<options>" has an entry that is not
\* marked ignored and whose external name is "-", unless a name tag gives
\* another.
C10_DashFieldFlagged ==
    \A c \in Callers :
       Returned(c)
       => \A sf \in DashDecls(arg[c].t) :
             \E i \in 1..Len(infos[c]) :
                LET info == infos[c][i]
                IN  /\ info.FieldName = sf.Name
                    /\ info.Ignore = (Len(JsonKeys(sf)) = 1)
                    /\ (Len(JsonKeys(sf)) > 1 /\ ~HasTag(sf.Tag, s_name)
                          => MarshalName(info) = s_dash)

\* C10 witness: a returned schema holds the entry of a field tagged "-",
\* marked ignored, and a name resolved to it.
C10_Witness ==
    \E c \in Callers :
       /\ pc[c] = "looked"
       /\ got[c].sidx >= 0
       /\ infos[c][got[c].sidx + 1].Ignore
       /\ \E sf \in DashDecls(arg[c].t) :
             Len(JsonKeys(sf)) = 1 /\ sf.Name = infos[c][got[c].sidx + 1].FieldName

=============================================================================
